---- MODULE Spec2Model ----
(***************************************************************************)
(* FlappyBirb: the pure reducers of state.ts (moveBird, movePipes,         *)
(* checkPipes, parsePipeCSV, restartGame, birdFlap, tick), the PRNG of     *)
(* util.ts and the stream wiring of observable.ts (state$): the fold of    *)
(* timebase ticks, key presses and replay reducers, the run recorder and   *)
(* the restart / ghost-replay choreography.                                *)
(*                                                                         *)
(* Lengths and velocities are integers counted in 1/Unit pixel. GRAVITY    *)
(* (0.5) and FLAP_FORCE (-5.5) lie on that grid, and so do velocities      *)
(* between 0 and GRAVITY; a random bounce, a double in the program, is     *)
(* rounded down to it.                                                     *)
(***************************************************************************)
EXTENDS Integers, Sequences, FiniteSets, TLC

(***************************************************************************)
(* Constants (types.ts, state.ts)                                          *)
(***************************************************************************)
Unit == 4

CANVAS_WIDTH == 600 * Unit
CANVAS_HEIGHT == 400 * Unit
BIRB_WIDTH == 42 * Unit
BIRB_HEIGHT == 30 * Unit
PIPE_WIDTH == 50 * Unit
TICK_RATE_MS == 20
GRAVITY == Unit \div 2
FLAP_FORCE == -((11 * Unit) \div 2)
MAX_VELOCITY == 10 * Unit
PIPE_SPEED == 5 * Unit
INVULN_TICKS == 15
INITIAL_LIVES == 3
INITIAL_SEED == 123456789

\* Ghost.y is `number | null`; bird positions are never negative.
Null == -1

(***************************************************************************)
(* PRNG (util.ts, class RNG, rand, randBetween)                            *)
(*                                                                         *)
(* hash is (a * seed + c) % m on IEEE doubles: the product can need 61     *)
(* bits, so it is rounded to 53 significant bits (ties to even), and so is *)
(* the sum. Numbers are kept in three parts to stay inside 32-bit integers.*)
(***************************************************************************)
\* m - 1, for m = 0x80000000 = 2^31 (m itself is not a 32-bit integer).
RNG_mMinus1 == 2147483647
RNG_a == 1103515245
RNG_c == 12345

B15 == 32768
B30 == 1073741824

RECURSIVE Pow2(_)
Pow2(n) == IF n = 0 THEN 1 ELSE 2 * Pow2(n - 1)

RECURSIVE BitLen(_)
BitLen(n) == IF n = 0 THEN 0 ELSE 1 + BitLen(n \div 2)

\* A number below 2^62 is kept as <<top, mid, lo>> = top * 2^45 + mid * 2^30
\* + lo with mid < 2^15 and lo < 2^30. Carry propagates lo overflow upward.
Carry(top, mid, lo) ==
    LET mid2 == mid + (lo \div B30)
    IN  <<top + (mid2 \div B15), mid2 % B15, lo % B30>>

\* The exact product x * y of two numbers below 2^31.
Mul(x, y) ==
    LET x0 == x % B15
        x1 == (x \div B15) % B15
        x2 == x \div B30
        y0 == y % B15
        y1 == (y \div B15) % B15
        y2 == y \div B30
        c0 == x0 * y0
        c1 == x0 * y1 + x1 * y0
        c2 == x0 * y2 + x1 * y1 + x2 * y0
        c3 == x1 * y2 + x2 * y1
        c4 == x2 * y2
        d0 == c0 % B15
        t1 == c1 + (c0 \div B15)
        d1 == t1 % B15
        t2 == c2 + (t1 \div B15)
        d2 == t2 % B15
        t3 == c3 + (t2 \div B15)
        d3 == t3 % B15
        d4 == c4 + (t3 \div B15)
    IN  <<d3 + d4 * B15, d2, d0 + d1 * B15>>

\* Number of significant bits of <<top, mid, lo>>.
Bits(n) ==
    IF n[1] > 0 THEN 45 + BitLen(n[1])
    ELSE IF n[2] > 0 THEN 30 + BitLen(n[2])
    ELSE BitLen(n[3])

\* lo rounded to a multiple of p = 2^k, ties to even.
RoundTo(lo, p) ==
    IF p = 1 THEN lo
    ELSE IF 2 * (lo % p) > p \/ (2 * (lo % p) = p /\ (lo \div p) % 2 = 1)
         THEN (lo \div p + 1) * p
         ELSE (lo \div p) * p

\* <<top, mid, lo>> rounded to a double: 53 significant bits, ties to even.
ToDouble(n) ==
    Carry(n[1], n[2],
          RoundTo(n[3], Pow2(IF Bits(n) > 53 THEN Bits(n) - 53 ELSE 0)))

AddC(n) == Carry(n[1], n[2], n[3] + RNG_c)
ModM(n) == (n[2] % 2) * B30 + n[3]

\* RNG.hash: (a * seed + c) % m in double arithmetic; the result is below m.
hash(seed) == ModM(ToDouble(AddC(ToDouble(Mul(RNG_a, seed)))))

\* floor(n * h / (m - 1)) for 0 <= h <= m - 1 and a small n, without
\* forming n * h: the number of j in 1..n with j * (m - 1) <= n * h.
ScaleFloor(n, h) ==
    LET d == RNG_mMinus1
    IN  Cardinality({j \in 1..n :
            h >= j * (d \div n) + ((j * (d % n) + n - 1) \div n)})

\* rand: value01 = (scale(next) + 1) / 2 = next / (m - 1), in [0, 1];
\* randBetween: min + (max - min) * value01, rounded down to the grid.
between(next, min, max) ==
    [v |-> min + ScaleFloor(max - min, next), seed |-> next]

randBetween(seed, min, max) == between(hash(seed), min, max)

(***************************************************************************)
(* Pure state (state.ts)                                                   *)
(***************************************************************************)
initialState ==
    [birdY |-> CANVAS_HEIGHT \div 2, birdVY |-> 0, pipes |-> <<>>,
     lives |-> INITIAL_LIVES, score |-> 0, gameEnd |-> FALSE, paused |-> FALSE,
     rngSeed |-> INITIAL_SEED, tickCount |-> 0, invulnUntil |-> 0,
     ghosts |-> <<>>]

\* Variant of moveBird: no cap on the velocity.
moveBird_NoCap(s) ==
    IF s.gameEnd THEN s
    ELSE
        LET vyNext == s.birdVY + GRAVITY
            yNext == s.birdY + vyNext
            minY == 0
            maxY == CANVAS_HEIGHT - BIRB_HEIGHT \div 2
            birdY == IF minY > yNext THEN minY
                     ELSE IF maxY < yNext THEN maxY ELSE yNext
            birdVY == IF birdY = minY \/ birdY = maxY THEN 0 ELSE vyNext
        IN  [s EXCEPT !.birdY = birdY, !.birdVY = birdVY]

\* Variant of moveBird: the velocity is not zeroed on the clamp.
moveBird_KeepsVY(s) ==
    IF s.gameEnd THEN s
    ELSE
        LET vyNext == IF s.birdVY + GRAVITY > MAX_VELOCITY
                      THEN MAX_VELOCITY ELSE s.birdVY + GRAVITY
            yNext == s.birdY + vyNext
            minY == 0
            maxY == CANVAS_HEIGHT - BIRB_HEIGHT \div 2
            birdY == IF minY > yNext THEN minY
                     ELSE IF maxY < yNext THEN maxY ELSE yNext
        IN  [s EXCEPT !.birdY = birdY, !.birdVY = vyNext]

\* Gravity integration + boundary clamping.
moveBird(s) ==
    IF s.gameEnd THEN s
    ELSE
        LET vyNext == IF s.birdVY + GRAVITY > MAX_VELOCITY
                      THEN MAX_VELOCITY ELSE s.birdVY + GRAVITY
            yNext == s.birdY + vyNext
            minY == 0
            maxY == CANVAS_HEIGHT - BIRB_HEIGHT \div 2
            birdY == IF minY > yNext THEN minY
                     ELSE IF maxY < yNext THEN maxY ELSE yNext
            birdVY == IF birdY = minY \/ birdY = maxY THEN 0 ELSE vyNext
        IN  [s EXCEPT !.birdY = birdY, !.birdVY = birdVY]

\* p => ({ ...p, x: p.x - PIPE_SPEED })
scrollPipe(p) == [p EXCEPT !.x = p.x - PIPE_SPEED]

\* Variant of onScreen: a pipe whose right edge is at 0 stays.
onScreen_Touching(p) == p.x + PIPE_WIDTH >= 0

\* Variant of onScreen: a pipe is culled when its left edge leaves.
onScreen_LeftEdge(p) == p.x > 0

\* p => p.x + PIPE_WIDTH > 0
onScreen(p) == p.x + PIPE_WIDTH > 0

\* Scroll pipes left and cull off-screen.
movePipes(s) ==
    [s EXCEPT !.pipes =
        SelectSeq([i \in 1..Len(s.pipes) |-> scrollPipe(s.pipes[i])], onScreen)]

\* Bird geometry of checkPipes (the x centre is fixed).
birdX == (CANVAS_WIDTH * 3) \div 10
birdRight == birdX + BIRB_WIDTH \div 2
birdLeft == birdX - BIRB_WIDTH \div 2
birdBottom(s) == s.birdY + BIRB_HEIGHT \div 2
birdTop(s) == s.birdY - BIRB_HEIGHT \div 2

gapTop(p) == p.gapY - p.gapHeight \div 2
gapBottom(p) == p.gapY + p.gapHeight \div 2
overlapsX(p) == birdRight >= p.x /\ birdLeft < p.x + PIPE_WIDTH
outsideGap(s, p) == birdTop(s) < gapTop(p) \/ birdBottom(s) > gapBottom(p)
collided(s, p) == overlapsX(p) /\ outsideGap(s, p)
hitTopHalf(s, p) == birdTop(s) < gapTop(p)
passedNow(s, p) == birdLeft > p.x + PIPE_WIDTH /\ ~outsideGap(s, p)

\* The accumulator the reduce of checkPipes starts from.
startAcc(s) ==
    [score |-> s.score, lives |-> s.lives, vy |-> s.birdVY,
     rngSeed |-> s.rngSeed, invulnUntilTick |-> s.invulnUntil,
     gameEnd |-> FALSE, lostLifeThisTick |-> FALSE, pipes |-> <<>>]

\* The locals of the callback of the reduce of checkPipes, for pipe p and
\* accumulator acc.
fixedBounceV(s, p) == IF hitTopHalf(s, p) THEN 6 * Unit ELSE -(6 * Unit)

\* Variant of shouldLoseLife: the cooldown of the world bounds applies.
shouldLoseLife_Cooldown(s, acc, p) ==
    collided(s, p) /\ ~acc.lostLifeThisTick
       /\ s.tickCount >= acc.invulnUntilTick

\* Variant of shouldLoseLife: a loss for every colliding pipe of the tick.
shouldLoseLife_EveryPipe(s, acc, p) == collided(s, p)

shouldLoseLife(s, acc, p) == collided(s, p) /\ ~acc.lostLifeThisTick

\* Variant of accLife: the run goes on after the last life.
accLife_NoEnd(s, acc, p) ==
    IF shouldLoseLife(s, acc, p)
    THEN [acc EXCEPT !.lives = acc.lives - 1, !.lostLifeThisTick = TRUE]
    ELSE acc

accLife(s, acc, p) ==
    IF shouldLoseLife(s, acc, p)
    THEN [acc EXCEPT !.lives = acc.lives - 1,
                     !.lostLifeThisTick = TRUE,
                     !.gameEnd = (acc.lives - 1 <= 0)]
    ELSE acc

\* Variant of pipeRr: a draw for every colliding pipe of the tick.
pipeRr_EveryPipe(s, acc, p, al) ==
    IF collided(s, p)
    THEN randBetween(al.rngSeed,
                     IF hitTopHalf(s, p) THEN 4 * Unit ELSE -(8 * Unit),
                     IF hitTopHalf(s, p) THEN 8 * Unit ELSE -(4 * Unit))
    ELSE [v |-> al.vy, seed |-> al.rngSeed]

\* Variant of pipeRr: the downward range whichever half was hit.
pipeRr_Downward(s, acc, p, al) ==
    IF shouldLoseLife(s, acc, p)
    THEN randBetween(al.rngSeed, 4 * Unit, 8 * Unit)
    ELSE [v |-> al.vy, seed |-> al.rngSeed]

\* rr, from al = accLife.
pipeRr(s, acc, p, al) ==
    IF shouldLoseLife(s, acc, p)
    THEN randBetween(al.rngSeed,
                     IF hitTopHalf(s, p) THEN 4 * Unit ELSE -(8 * Unit),
                     IF hitTopHalf(s, p) THEN 8 * Unit ELSE -(4 * Unit))
    ELSE [v |-> al.vy, seed |-> al.rngSeed]

\* accBounce, from al = accLife and rr.
accBounce(s, acc, p, al, rr) ==
    IF collided(s, p)
    THEN [al EXCEPT !.vy = IF shouldLoseLife(s, acc, p) THEN rr.v
                           ELSE fixedBounceV(s, p),
                    !.rngSeed = rr.seed]
    ELSE al

\* Score once when passing inside the gap; ab = accBounce.
scored(s, p, ab) ==
    [ab EXCEPT
       !.pipes = Append(ab.pipes,
                        IF passedNow(s, p) THEN [p EXCEPT !.passed = TRUE]
                        ELSE p),
       !.score = ab.score + (IF passedNow(s, p) THEN 1 ELSE 0)]

\* Variant of pipeStep: a passed pipe is scored again.
pipeStep_Recount(s, acc, p) ==
    scored(s, p,
           accBounce(s, acc, p, accLife(s, acc, p),
                     pipeRr(s, acc, p, accLife(s, acc, p))))

\* One step of the reduce of checkPipes: pipe p folded into acc.
pipeStep(s, acc, p) ==
    IF p.passed THEN [acc EXCEPT !.pipes = Append(acc.pipes, p)]
    ELSE scored(s, p,
                accBounce(s, acc, p, accLife(s, acc, p),
                          pipeRr(s, acc, p, accLife(s, acc, p))))

\* s.pipes.reduce(pipeStep, start), over the first n pipes.
RECURSIVE reducePipes(_, _)
reducePipes(s, n) ==
    IF n = 0 THEN startAcc(s)
    ELSE pipeStep(s, reducePipes(s, n - 1), s.pipes[n])

afterPipes(s) == reducePipes(s, Len(s.pipes))

\* Variant of canLoseLife: a life lost to a pipe in the tick does not count.
canLoseLife_IgnoresPipeLoss(s, ap) == s.tickCount >= ap.invulnUntilTick

\* Variant of canLoseLife: no cooldown.
canLoseLife_NoCooldown(s, ap) == ~ap.lostLifeThisTick

canLoseLife(s, ap) ==
    s.tickCount >= ap.invulnUntilTick /\ ~ap.lostLifeThisTick

\* Variant of boundsHit: no bounce when no life is deducted.
boundsHit_BounceOnLoss(s, ap, rr) ==
    IF canLoseLife(s, ap)
    THEN [ap EXCEPT
            !.lives = ap.lives - 1,
            !.gameEnd = IF ap.lives - 1 <= 0 THEN TRUE ELSE ap.gameEnd,
            !.invulnUntilTick = s.tickCount + INVULN_TICKS,
            !.vy = rr.v, !.rngSeed = rr.seed]
    ELSE ap

\* The life loss (with cooldown) and the bounce rr of one world-bound contact.
boundsHit(s, ap, rr) ==
    [ap EXCEPT
       !.lives = IF canLoseLife(s, ap) THEN ap.lives - 1 ELSE ap.lives,
       !.gameEnd = IF canLoseLife(s, ap) /\ ap.lives - 1 <= 0 THEN TRUE
                   ELSE ap.gameEnd,
       !.invulnUntilTick = IF canLoseLife(s, ap)
                           THEN s.tickCount + INVULN_TICKS
                           ELSE ap.invulnUntilTick,
       !.vy = rr.v, !.rngSeed = rr.seed]

topContact(s) == birdTop(s) <= 0
bottomContact(s) == birdBottom(s) >= CANVAS_HEIGHT

\* World bounds: life loss (with cooldown) and bounce.
world(s, ap) ==
    IF ap.gameEnd THEN ap
    ELSE IF topContact(s)
         THEN boundsHit(s, ap, randBetween(ap.rngSeed, 4 * Unit, 8 * Unit))
    ELSE IF bottomContact(s)
         THEN boundsHit(s, ap, randBetween(ap.rngSeed, -(8 * Unit), -(4 * Unit)))
    ELSE ap

\* The state checkPipes returns, from the accumulator w after the world step.
fromAcc(s, w) ==
    [s EXCEPT !.pipes = w.pipes, !.score = w.score, !.lives = w.lives,
              !.birdVY = w.vy, !.gameEnd = w.gameEnd,
              !.rngSeed = w.rngSeed, !.invulnUntil = w.invulnUntilTick]

\* Variant of checkPipes: no end when all pipes are gone.
checkPipes_NoEmptyCheck(s) == fromAcc(s, world(s, afterPipes(s)))

\* Variant of checkPipes: the end on an empty pipe set comes after the
\* world-bound step instead of before it.
checkPipes_EndLast(s) ==
    IF Len(s.pipes) = 0
    THEN [fromAcc(s, world(s, afterPipes(s))) EXCEPT !.gameEnd = TRUE]
    ELSE fromAcc(s, world(s, afterPipes(s)))

\* Collisions, scoring, and life/velocity updates.
checkPipes(s) ==
    IF Len(s.pipes) = 0 THEN [s EXCEPT !.gameEnd = TRUE]
    ELSE fromAcc(s, world(s, afterPipes(s)))

\* Variant of parseRow: x places the right edge of the pipe, not the left.
parseRow_RightEdge(r) ==
    [x |-> CANVAS_WIDTH - PIPE_WIDTH
             + (r.time * (1000 \div TICK_RATE_MS) * PIPE_SPEED) \div 100,
     gapY |-> (r.gapY * CANVAS_HEIGHT) \div 100,
     gapHeight |-> (r.gapHeight * CANVAS_HEIGHT) \div 100,
     passed |-> FALSE]

\* A CSV row that parses to three finite numbers: the gap centre and the gap
\* height in hundredths of the canvas height, the time in hundredths of a
\* second. Any other line has ok = FALSE and is dropped.
parseRow(r) ==
    [x |-> CANVAS_WIDTH
             + (r.time * (1000 \div TICK_RATE_MS) * PIPE_SPEED) \div 100,
     gapY |-> (r.gapY * CANVAS_HEIGHT) \div 100,
     gapHeight |-> (r.gapHeight * CANVAS_HEIGHT) \div 100,
     passed |-> FALSE]

rowOk(r) == r.ok

\* Parse CSV (the lines after the header) into scheduled pipes.
parsePipeCSV(csv) ==
    LET rows == SelectSeq(csv, rowOk)
    IN  [i \in 1..Len(rows) |-> parseRow(rows[i])]

\* Variant of restartGame: the ghosts of the old state are kept.
restartGame_KeepsGhosts(s, pipes) ==
    [initialState EXCEPT !.pipes = pipes, !.ghosts = s.ghosts]

\* Variant of restartGame: the generator's seed survives the restart.
restartGame_KeepsSeed(s, pipes) ==
    [initialState EXCEPT !.pipes = pipes, !.rngSeed = s.rngSeed]

\* Reset to initial state while reusing the same pipe set.
restartGame(s, pipes) == [initialState EXCEPT !.pipes = pipes]

\* Apply an instantaneous upward velocity.
birdFlap(s) == [s EXCEPT !.birdVY = FLAP_FORCE]

\* Variant of tick: no guard.
tick_Unguarded(s) ==
    [checkPipes(movePipes(moveBird(s))) EXCEPT !.tickCount = s.tickCount + 1]

\* Variant of tick: an ended state is ticked like a running one.
tick_IgnoresEnd(s) ==
    IF s.paused THEN s
    ELSE [checkPipes(movePipes(moveBird(s))) EXCEPT !.tickCount = s.tickCount + 1]

\* Variant of tick: the tick that ends the run is not counted.
tick_NoCountOnEnd(s) ==
    IF s.gameEnd \/ s.paused THEN s
    ELSE [checkPipes(movePipes(moveBird(s))) EXCEPT
             !.tickCount = IF checkPipes(movePipes(moveBird(s))).gameEnd
                           THEN s.tickCount ELSE s.tickCount + 1]

\* One discrete time-step composed of pure sub-reducers.
tick(s) ==
    IF s.gameEnd \/ s.paused THEN s
    ELSE [checkPipes(movePipes(moveBird(s))) EXCEPT !.tickCount = s.tickCount + 1]

(***************************************************************************)
(* Reducers of the fold (observable.ts)                                    *)
(***************************************************************************)
\* Variant of flapR: no guard.
flapR_Unguarded(s) == birdFlap(s)

\* Variant of flapR: flaps are ignored while paused too.
flapR_IgnoresPause(s) == IF s.gameEnd \/ s.paused THEN s ELSE birdFlap(s)

\* Apply an upward impulse only during play.
flapR(s) == IF s.gameEnd THEN s ELSE birdFlap(s)

togglePauseR(s) == [s EXCEPT !.paused = ~s.paused]

restartR(pipes, s) == restartGame(s, pipes)

resetGhostsR(s) == [s EXCEPT !.ghosts = <<>>]

hasGhost(s, id) == \E i \in 1..Len(s.ghosts) : s.ghosts[i].id = id

activateGhostR(id, s) ==
    [s EXCEPT !.ghosts =
        IF hasGhost(s, id)
        THEN [i \in 1..Len(s.ghosts) |->
                IF s.ghosts[i].id = id
                THEN [s.ghosts[i] EXCEPT !.active = TRUE, !.y = Null]
                ELSE s.ghosts[i]]
        ELSE Append(s.ghosts, [id |-> id, active |-> TRUE, y |-> Null])]

\* Variant of ghostFrameR: the frame moves the bird as well as the ghost.
ghostFrameR_MovesBird(id, y, s) ==
    [s EXCEPT !.birdY = y,
              !.ghosts =
        [i \in 1..Len(s.ghosts) |->
            IF s.ghosts[i].id = id
            THEN [s.ghosts[i] EXCEPT !.active = TRUE, !.y = y]
            ELSE s.ghosts[i]]]

ghostFrameR(id, y, s) ==
    [s EXCEPT !.ghosts =
        [i \in 1..Len(s.ghosts) |->
            IF s.ghosts[i].id = id
            THEN [s.ghosts[i] EXCEPT !.active = TRUE, !.y = y]
            ELSE s.ghosts[i]]]

deactivateGhostR(id, s) ==
    [s EXCEPT !.ghosts =
        [i \in 1..Len(s.ghosts) |->
            IF s.ghosts[i].id = id
            THEN [s.ghosts[i] EXCEPT !.active = FALSE]
            ELSE s.ghosts[i]]]

(***************************************************************************)
(* Ghost recording (observable.ts, runsAcc$)                               *)
(*                                                                         *)
(* A ReplaySubject<number> is the sequence of values it has been given. A  *)
(* sample carries, beside the position, the number of the run it was taken *)
(* in: a history label the program does not hold. acc.current is null      *)
(* when hasCurrent is FALSE. A subject is completed exactly when it is     *)
(* moved into acc.runs.                                                    *)
(***************************************************************************)
initialAcc ==
    [runs |-> <<>>, current |-> <<>>, hasCurrent |-> FALSE, nextId |-> 1,
     prevEnded |-> FALSE]

\* The accumulator function of the scan of runsAcc$; r is the run label.
recStep(a, st, r) ==
    LET endedThisTick == st.gameEnd /\ ~a.prevEnded
        runningThisTick == ~st.gameEnd
        current == IF runningThisTick
                   THEN Append(IF a.hasCurrent THEN a.current ELSE <<>>,
                               [y |-> st.birdY, run |-> r])
                   ELSE a.current
        hasCurrent == runningThisTick \/ a.hasCurrent
        runs == IF endedThisTick /\ a.hasCurrent
                THEN Append(a.runs, [id |-> a.nextId, subj |-> a.current])
                ELSE a.runs
    IN  [runs |-> runs,
         current |-> IF endedThisTick THEN <<>> ELSE current,
         hasCurrent |-> IF endedThisTick THEN FALSE ELSE hasCurrent,
         nextId |-> IF endedThisTick THEN a.nextId + 1 ELSE a.nextId,
         prevEnded |-> st.gameEnd]

(***************************************************************************)
(* Bounds of the exploration                                               *)
(***************************************************************************)
\* Key presses (Space or P) over one behaviour of Spec.
MaxKeys == 3

\* Reducer applications over one behaviour of SpecReducers, and moveBird
\* applications over one behaviour of SpecPure.
MaxSteps == 2

\* Ticks over one behaviour of SpecPure.
MaxTicks == 13

\* Schedules (the CSV lines after the header). parsePipeCSV keeps every row
\* of three finite numbers, so an appearance time may be negative: the pipe
\* then starts inside the viewport.
Row(gy, gh, t) == [ok |-> TRUE, gapY |-> gy, gapHeight |-> gh, time |-> t]
BadRow == [ok |-> FALSE, gapY |-> 0, gapHeight |-> 0, time |-> 0]

CsvEmpty == <<>>
CsvWall == <<Row(20, 10, -160), BadRow, Row(30, 10, -160)>>
CsvGate == <<Row(50, 50, -252)>>
\* A pipe whose right edge is at 0 from the start.
CsvGone == <<Row(50, 50, -260)>>
Schedules == {CsvEmpty, CsvWall, CsvGate, CsvGone}

\* Schedules of pipes that appear 0.02 s, 0.04 s and 0.06 s after the start.
CsvSoon == <<Row(50, 50, 2)>>
CsvPair == <<Row(50, 50, 4), BadRow, Row(40, 50, 6)>>
TimedSchedules == {CsvSoon, CsvPair}

(***************************************************************************)
(* Stream wiring (observable.ts, state$)                                   *)
(***************************************************************************)
VARIABLES
    csv,            \* csvContents: the lines after the header
    initialPipes,   \* parsePipeCSV(csvContents)
    s,              \* the accumulator of the scan of stateObs$
    shared,         \* sharedState$ holds a latest value (then it is s)
    acc,            \* the accumulator of the scan of runsAcc$
    accShared,      \* runsAcc$ holds a latest value (then it is acc)
    plays,          \* ghostStreams of the current inner stream of switchMap
    timers,         \* live interval(TICK_RATE_MS) timers, next to fire first
    keys,           \* key presses so far
    steps,          \* reducer applications so far (SpecReducers)
    run,            \* history: number of restarts applied
    lossTick,       \* history: tick index of the run's last world-bound loss
    pre,            \* history: s before the last event
    last,           \* history: the last event
    log,            \* history: the reducers the last event put through the fold
    trail,          \* history: the ghost reducers applied since the last restart
    shadow,         \* history: the events of the run folded from a fresh restart
    latch           \* history: "held" once a flap has come while paused,
                    \* "integrated" by the tick processed next, else "no"

vars == <<csv, initialPipes, s, shared, acc, accShared, plays, timers,
          keys, steps, run, lossTick, pre, last, log, trail, shadow, latch>>

TickTimer == [kind |-> "tick", id |-> 0, gen |-> 0]
RecTimer == [kind |-> "rec", id |-> 0, gen |-> 0]
\* gen is a history label: the restart whose choreography started the timer.
GhostTimer(id, gen) == [kind |-> "ghost", id |-> id, gen |-> gen]

\* Variant of playTickPasses: ticks pass while paused.
playTickPasses_Always(st) == TRUE

\* The filter of playTick$.
playTickPasses(st) == ~st.paused

\* Variant of framesGoOn: the frames go on after the run has ended.
framesGoOn_Always(st) == TRUE

\* The predicate of the takeWhile of frames$.
framesGoOn(st) == ~st.gameEnd

\* The tick of st is processed: tick does not return st unchanged.
processed(st) == ~st.gameEnd /\ ~st.paused

\* An entry of trail.
Entry(op, id, y, gen) == [op |-> op, id |-> id, y |-> y, gen |-> gen]

\* baseState = restartGame({} as State, initialPipes); the two intervals of
\* baseReducers$ and of the recorder's playTick$ are started in that order.
Init ==
    /\ csv \in Schedules
    /\ initialPipes = parsePipeCSV(csv)
    /\ s = restartGame(initialState, initialPipes)
    /\ shared = FALSE
    /\ acc = initialAcc
    /\ accShared = FALSE
    /\ plays = <<>>
    /\ timers = <<TickTimer, RecTimer>>
    /\ keys = 0 /\ steps = 0
    /\ run = 0
    /\ lossTick = Null
    /\ pre = s
    /\ last = "init"
    /\ log = <<>>
    /\ trail = <<>>
    /\ shadow = s
    /\ latch = "no"

\* Timers of one period fire one after the other, each once per period.
Rotate(q) == Append(Tail(q), Head(q))

\* The state checkPipes is given by the tick of st.
advanced(st) == movePipes(moveBird(st))

\* The world-bound step of checkPipes(adv) deducted a life.
worldLoss(adv, ap) ==
    Len(adv.pipes) > 0 /\ world(adv, ap).lives < ap.lives

\* The world-bound step of the tick of st deducted a life.
boundsLoss(st) ==
    /\ ~st.gameEnd /\ ~st.paused
    /\ worldLoss(advanced(st), afterPipes(advanced(st)))

\* baseReducers$: tick$ -> (s => tick(s)), folded by the scan.
MainTick ==
    /\ Head(timers) = TickTimer
    /\ s' = tick(s)
    /\ shared' = TRUE
    /\ timers' = Rotate(timers)
    /\ lossTick' = IF boundsLoss(s) THEN s.tickCount ELSE lossTick
    /\ pre' = s /\ last' = "tick" /\ log' = <<"tick">>
    /\ shadow' = tick(shadow)
    /\ latch' = IF ~processed(s) THEN latch
                 ELSE IF latch = "held" THEN "integrated" ELSE "no"
    /\ UNCHANGED <<csv, initialPipes, acc, accShared, plays, keys, steps, run,
                   trail>>

\* runsAcc$: playTick$ (ticks that find the latest state unpaused) with the
\* latest state, folded by recStep.
RecTick ==
    /\ Head(timers) = RecTimer
    /\ timers' = Rotate(timers)
    /\ IF shared /\ playTickPasses(s)
       THEN acc' = recStep(acc, s, run) /\ accShared' = TRUE
       ELSE UNCHANGED <<acc, accShared>>
    /\ pre' = s /\ last' = "rec" /\ log' = <<>>
    /\ UNCHANGED <<csv, initialPipes, s, shared, plays, keys, steps, run,
                   lossTick, trail, shadow, latch>>

\* pauseReducers$: P -> togglePauseR.
PressP ==
    /\ keys < MaxKeys
    /\ keys' = keys + 1
    /\ s' = togglePauseR(s)
    /\ shared' = TRUE
    /\ pre' = s /\ last' = "keyP" /\ log' = <<"pause">>
    /\ shadow' = togglePauseR(shadow)
    /\ UNCHANGED <<csv, initialPipes, acc, accShared, plays, timers, steps, run,
                   lossTick, trail, latch>>

\* concat(activate$, frames$, end$) of every run of rs, subscribed in order
\* by merge: the activations are applied at once; a run whose subject holds
\* no value completes zip at once and is deactivated.
RECURSIVE activateAll(_, _)
activateAll(rs, st) ==
    IF rs = <<>> THEN st
    ELSE LET a == activateGhostR(Head(rs).id, st)
         IN  activateAll(Tail(rs),
                 IF Head(rs).subj = <<>> THEN deactivateGhostR(Head(rs).id, a)
                 ELSE a)

RECURSIVE activateLog(_)
activateLog(rs) ==
    IF rs = <<>> THEN <<>>
    ELSE (IF Head(rs).subj = <<>> THEN <<"activate", "deactivate">>
          ELSE <<"activate">>) \o activateLog(Tail(rs))

\* The entries of trail for the reducers of activateAll(rs, st).
RECURSIVE activateTrail(_, _)
activateTrail(rs, gen) ==
    IF rs = <<>> THEN <<>>
    ELSE (IF Head(rs).subj = <<>>
          THEN <<Entry("activate", Head(rs).id, Null, gen),
                 Entry("deactivate", Head(rs).id, Null, gen)>>
          ELSE <<Entry("activate", Head(rs).id, Null, gen)>>)
         \o activateTrail(Tail(rs), gen)

hasFrames(r) == r.subj # <<>>

\* Variant of notGhost: the intervals of the previous inner stream are kept.
notGhost_KeepAll(tm) == TRUE

\* The timers switchMap leaves running when it drops the previous inner
\* stream: those that do not belong to a playback.
notGhost(tm) == tm.kind # "ghost"

\* The playbacks a choreography starts: zip's buffer of each run's subject.
newPlays(rs) ==
    LET live == SelectSeq(rs, hasFrames)
    IN  [i \in 1..Len(live) |-> [id |-> live[i].id, frames |-> live[i].subj]]

\* The interval of the playTick$ of each playback, in subscription order.
ghostTimers(ps, gen) == [i \in 1..Len(ps) |-> GhostTimer(ps[i].id, gen)]

\* The reducers of the choreography, applied in order to st.
choreography(st, rs) ==
    activateAll(rs, resetGhostsR(flapR(restartR(initialPipes, st))))

\* A Space keydown. Its listeners run in the order they were added:
\* flapReducers$ (added when sharedState$ was first subscribed), then
\* restartAndGhostReducers$: withLatestFrom(sharedState$, runsAcc$) passes
\* the key once both have a value, filter keeps it when the game has ended,
\* and switchMap drops the previous inner stream (its playbacks and their
\* timers) and subscribes concat(restart$, flap$, clearGhosts$, merge(...)).
PressSpace ==
    /\ keys < MaxKeys
    /\ keys' = keys + 1
    /\ shared' = TRUE
    /\ pre' = s /\ last' = "keySpace"
    /\ IF accShared /\ flapR(s).gameEnd
       THEN /\ s' = choreography(flapR(s), acc.runs)
            /\ plays' = newPlays(acc.runs)
            /\ timers' = SelectSeq(timers, notGhost) \o ghostTimers(plays', run + 1)
            /\ run' = run + 1
            /\ lossTick' = Null
            /\ log' = <<"flap", "restart", "flap", "clear">>
                        \o activateLog(acc.runs)
            /\ trail' = activateTrail(acc.runs, run + 1)
            /\ shadow' = flapR(restartGame(initialState, initialPipes))
            /\ latch' = "no"
       ELSE /\ s' = flapR(s)
            /\ log' = <<"flap">>
            /\ shadow' = flapR(shadow)
            /\ latch' = IF (s.paused /\ ~s.gameEnd) \/ latch = "held"
                         THEN "held" ELSE "no"
            /\ UNCHANGED <<plays, timers, run, lossTick, trail>>
    /\ UNCHANGED <<csv, initialPipes, acc, accShared, steps>>

playOf(id) == CHOOSE i \in 1..Len(plays) : plays[i].id = id
dropPlay(id) == SelectSeq(plays, LAMBDA p : p.id # id)

\* One tick of the playTick$ of a playback: dropped while paused; otherwise
\* zip pairs it with the next recorded value, takeWhile ends the frames once
\* the game has ended, and when the frames end (taken out, or the recording
\* exhausted) concat emits the deactivation and the timer is released.
GhostTick ==
    /\ Head(timers).kind = "ghost"
    /\ pre' = s /\ last' = "ghost"
    /\ \E id \in {Head(timers).id}, g \in {Head(timers).gen} :
        \E i \in {playOf(id)} :
           IF ~playTickPasses(s)
           THEN /\ timers' = Rotate(timers)
                /\ log' = <<>>
                /\ UNCHANGED <<s, plays, trail>>
           ELSE IF ~framesGoOn(s)
           THEN /\ s' = deactivateGhostR(id, s)
                /\ plays' = dropPlay(id)
                /\ timers' = Tail(timers)
                /\ log' = <<"deactivate">>
                /\ trail' = Append(trail, Entry("deactivate", id, Null, g))
           ELSE IF Len(plays[i].frames) = 1
           THEN /\ s' = deactivateGhostR(id,
                          ghostFrameR(id, Head(plays[i].frames).y, s))
                /\ plays' = dropPlay(id)
                /\ timers' = Tail(timers)
                /\ log' = <<"frame", "deactivate">>
                /\ trail' = trail
                      \o <<Entry("frame", id, Head(plays[i].frames).y, g),
                           Entry("deactivate", id, Null, g)>>
           ELSE /\ s' = ghostFrameR(id, Head(plays[i].frames).y, s)
                /\ plays' = [plays EXCEPT ![i].frames = Tail(plays[i].frames)]
                /\ timers' = Rotate(timers)
                /\ log' = <<"frame">>
                /\ trail' = Append(trail,
                      Entry("frame", id, Head(plays[i].frames).y, g))
    /\ UNCHANGED <<csv, initialPipes, shared, acc, accShared, keys, steps, run,
                   lossTick, shadow, latch>>

Next == MainTick \/ RecTick \/ GhostTick \/ PressP \/ PressSpace

Spec == Init /\ [][Next]_vars

\* A step that fires the timer at the head of the queue: the queue is rotated,
\* or loses its head when a playback's interval is released.
fires == timers' = Rotate(timers) \/ timers' = Tail(timers)

\* The intervals keep firing: the queue of timers is never left standing.
SpecLive == Spec /\ WF_timers(fires)

(***************************************************************************)
(* The reducers on their own: a state drawn from a bounded set of states   *)
(* that satisfy the invariants of the fold, then up to MaxSteps reducer    *)
(* applications, each with inputs drawn from small sets.                   *)
(***************************************************************************)
Pipe(x, gy, gh, passed) ==
    [x |-> x * Unit, gapY |-> gy * Unit, gapHeight |-> gh * Unit,
     passed |-> passed]

PipesFar == <<Pipe(600, 200, 100, FALSE)>>
PipesWall == <<Pipe(200, 80, 40, FALSE), Pipe(200, 120, 40, FALSE)>>
PipesGate == <<Pipe(100, 200, 200, FALSE)>>
PipesLast == <<Pipe(-45, 200, 100, TRUE)>>
PipesMixed == <<Pipe(150, 80, 40, TRUE), Pipe(190, 200, 100, FALSE)>>
DrawnPipes == {<<>>, PipesFar, PipesWall, PipesGate, PipesLast, PipesMixed}

DrawnBirdY == {0, 12 * Unit, 200 * Unit, 385 * Unit}
DrawnBirdVY == {FLAP_FORCE, 0, MAX_VELOCITY}
\* <<tickCount, invulnUntil>>: no cooldown yet, inside one, one just over.
DrawnClock == {<<0, 0>>, <<20, 30>>, <<20, 20>>}
DrawnGhosts == <<[id |-> 1, active |-> TRUE, y |-> 200 * Unit]>>

passedCount(ps) == Cardinality({i \in 1..Len(ps) : ps[i].passed})

\* A run has ended with no life left and pipes on screen, or with lives left
\* and no pipe; only a fresh run of an empty schedule is live without pipes.
Plausible(st) ==
    /\ st.gameEnd <=> (st.lives = 0 \/ (st.pipes = <<>> /\ st.tickCount > 0))
    /\ st.lives = 0 => st.pipes # <<>>
    /\ (st.pipes = <<>> /\ ~st.gameEnd) => st.lives = INITIAL_LIVES

DrawnStates ==
    {st \in
        {[birdY |-> y, birdVY |-> vy, pipes |-> ps, lives |-> l,
          score |-> passedCount(ps), gameEnd |-> e, paused |-> p,
          rngSeed |-> INITIAL_SEED, tickCount |-> c[1], invulnUntil |-> c[2],
          ghosts |-> DrawnGhosts] :
            y \in DrawnBirdY, vy \in DrawnBirdVY, ps \in DrawnPipes,
            l \in 0..INITIAL_LIVES, e \in BOOLEAN, p \in BOOLEAN,
            c \in DrawnClock} :
        Plausible(st)}

InitReducers ==
    /\ s \in DrawnStates
    /\ csv = CsvWall
    /\ initialPipes = parsePipeCSV(csv)
    /\ shared = FALSE
    /\ acc = initialAcc
    /\ accShared = FALSE
    /\ plays = <<>>
    /\ timers = <<TickTimer, RecTimer>>
    /\ keys = 0 /\ steps = 0
    /\ run = 0
    /\ lossTick = IF s.invulnUntil = 0 THEN Null
                  ELSE s.invulnUntil - INVULN_TICKS
    /\ pre = s
    /\ last = "init"
    /\ log = <<>>
    /\ trail = <<>>
    /\ shadow = s
    /\ latch = "no"

\* One reducer application: st is the new state.
Applied(st, name) ==
    /\ steps < MaxSteps
    /\ steps' = steps + 1
    /\ s' = st
    /\ pre' = s /\ last' = name /\ log' = <<name>>
    /\ UNCHANGED <<shared, acc, accShared, plays, timers, keys, run, trail,
                   shadow, latch>>

ApplyTick ==
    /\ Applied(tick(s), "tick")
    /\ lossTick' = IF boundsLoss(s) THEN s.tickCount ELSE lossTick
    /\ UNCHANGED <<csv, initialPipes>>

ApplyFlap == Applied(flapR(s), "flap") /\ UNCHANGED <<csv, initialPipes, lossTick>>

ApplyPause ==
    Applied(togglePauseR(s), "pause") /\ UNCHANGED <<csv, initialPipes, lossTick>>

ApplyRestart ==
    \E c \in Schedules :
        /\ Applied(restartR(parsePipeCSV(c), s), "restart")
        /\ csv' = c
        /\ initialPipes' = parsePipeCSV(c)
        /\ lossTick' = Null

ApplyClear ==
    Applied(resetGhostsR(s), "clear") /\ UNCHANGED <<csv, initialPipes, lossTick>>

ApplyActivate ==
    \E id \in 1..2 :
        Applied(activateGhostR(id, s), "activate")
        /\ UNCHANGED <<csv, initialPipes, lossTick>>

ApplyFrame ==
    \E id \in 1..2, y \in {100 * Unit, 300 * Unit} :
        Applied(ghostFrameR(id, y, s), "frame")
        /\ UNCHANGED <<csv, initialPipes, lossTick>>

ApplyDeactivate ==
    \E id \in 1..2 :
        Applied(deactivateGhostR(id, s), "deactivate")
        /\ UNCHANGED <<csv, initialPipes, lossTick>>

NextReducers ==
    \/ ApplyTick \/ ApplyFlap \/ ApplyPause \/ ApplyRestart
    \/ ApplyClear \/ ApplyActivate \/ ApplyFrame \/ ApplyDeactivate

SpecReducers == InitReducers /\ [][NextReducers]_vars

(***************************************************************************)
(* The pure functions on their own: moveBird applied to states drawn around *)
(* the two bounds of the world, and uninterrupted ticks of a fresh run of   *)
(* a timed schedule.                                                        *)
(***************************************************************************)
MoveBirdY == {0, 200 * Unit, 385 * Unit, CANVAS_HEIGHT}
MoveBirdVY == {FLAP_FORCE, -GRAVITY, -1, 0, 1, MAX_VELOCITY, 2 * MAX_VELOCITY}

InitPure ==
    /\ csv \in TimedSchedules
    /\ initialPipes = parsePipeCSV(csv)
    /\ \E y \in MoveBirdY, vy \in MoveBirdVY, e \in BOOLEAN :
          s = [restartGame(initialState, initialPipes) EXCEPT
                  !.birdY = y, !.birdVY = vy, !.gameEnd = e,
                  !.lives = IF e THEN 0 ELSE INITIAL_LIVES]
    /\ shared = FALSE
    /\ acc = initialAcc
    /\ accShared = FALSE
    /\ plays = <<>>
    /\ timers = <<TickTimer, RecTimer>>
    /\ keys = 0 /\ steps = 0
    /\ run = 0
    /\ lossTick = Null
    /\ pre = s
    /\ last = "init"
    /\ log = <<>>
    /\ trail = <<>>
    /\ shadow = s
    /\ latch = "no"

ApplyMoveBird ==
    Applied(moveBird(s), "moveBird") /\ UNCHANGED <<csv, initialPipes, lossTick>>

\* One of a series of ticks with nothing in between, the game neither paused
\* nor ended.
ScrollTick ==
    /\ s.tickCount < MaxTicks
    /\ processed(s)
    /\ s' = tick(s)
    /\ lossTick' = IF boundsLoss(s) THEN s.tickCount ELSE lossTick
    /\ pre' = s /\ last' = "tick" /\ log' = <<"tick">>
    /\ UNCHANGED <<csv, initialPipes, shared, acc, accShared, plays, timers,
                   keys, steps, run, trail, shadow, latch>>

NextPure == ApplyMoveBird \/ ScrollTick

SpecPure == InitPure /\ [][NextPure]_vars

(***************************************************************************)
(* Collisions and bounces on their own: a running state drawn with the     *)
(* bird at, above, inside and below a gap and at both bounds of the world, *)
(* seeds at the ends of the generator's range, then up to MaxSteps         *)
(* reducers other than the restart.                                        *)
(***************************************************************************)
\* One pipe over the bird, two pipes over the bird, and a passed pipe over
\* the bird followed by one that is not; the gap is 150..250.
PipesHit == <<Pipe(155, 200, 100, FALSE)>>
PipesTwo == <<Pipe(150, 200, 100, FALSE), Pipe(190, 200, 100, FALSE)>>
PipesPassedHit == <<Pipe(150, 200, 100, TRUE), Pipe(190, 200, 100, FALSE)>>
\* A pipe leaving the screen, one that has just left it, one over the bird.
PipesCull ==
    <<Pipe(-20, 200, 100, TRUE), Pipe(-45, 200, 100, TRUE),
      Pipe(190, 200, 100, FALSE)>>
BouncePipes ==
    {PipesHit, PipesTwo, PipesPassedHit, PipesFar, PipesLast, PipesCull}

BounceBirdY == {0, 10 * Unit, 140 * Unit, 200 * Unit, 260 * Unit, 385 * Unit}

\* Seeds: 0, the seed of the tests, the initial seed, m - 1, the seed whose
\* hash is 0 and a seed whose hash is 140 short of m - 1.
BounceSeeds ==
    {0, 123, INITIAL_SEED, RNG_mMinus1, 2088216195, 1114082}

InitBounce ==
    /\ csv = CsvWall
    /\ initialPipes = parsePipeCSV(csv)
    /\ \E y \in BounceBirdY, ps \in BouncePipes, l \in 1..INITIAL_LIVES,
          seed \in BounceSeeds, c \in DrawnClock :
          s = [birdY |-> y, birdVY |-> 0, pipes |-> ps, lives |-> l,
               score |-> passedCount(ps), gameEnd |-> FALSE,
               paused |-> FALSE, rngSeed |-> seed, tickCount |-> c[1],
               invulnUntil |-> c[2], ghosts |-> <<>>]
    /\ shared = FALSE
    /\ acc = initialAcc
    /\ accShared = FALSE
    /\ plays = <<>>
    /\ timers = <<TickTimer, RecTimer>>
    /\ keys = 0 /\ steps = 0
    /\ run = 0
    /\ lossTick = IF s.invulnUntil = 0 THEN Null
                  ELSE s.invulnUntil - INVULN_TICKS
    /\ pre = s
    /\ last = "init"
    /\ log = <<>>
    /\ trail = <<>>
    /\ shadow = s
    /\ latch = "no"

NextBounce ==
    \/ ApplyTick \/ ApplyFlap \/ ApplyPause
    \/ ApplyClear \/ ApplyActivate \/ ApplyFrame \/ ApplyDeactivate

SpecBounce == InitBounce /\ [][NextBounce]_vars

(***************************************************************************)
(* Properties. pre, last and log describe the last event: the state it     *)
(* found, its kind, and the reducers it put through the fold.              *)
(***************************************************************************)
\* The non-passed pipes of st the bird collides with.
colliding(st) ==
    {i \in 1..Len(st.pipes) :
        ~st.pipes[i].passed /\ collided(st, st.pipes[i])}

\* The bird of st touches the top or the bottom of the world.
boundsContact(st) == topContact(st) \/ bottomContact(st)

\* C1: tick applied to a state with gameEnd or paused set returns that state,
\* equal in every field; tickCount is not incremented.
C1_TickIdentity ==
    (last = "tick" /\ (pre.gameEnd \/ pre.paused)) =>
        /\ s = pre
        /\ s.tickCount = pre.tickCount

C1_Witness ==
    /\ last = "tick" /\ pre.paused /\ ~pre.gameEnd
    /\ pre.pipes # <<>> /\ pre.tickCount > 0
    /\ s = pre

\* C2: in every state reached by tick, flap, pause, restart and ghost
\* reducers, lives is an integer from 0 to 3, and lives = 0 implies gameEnd.
C2_LivesRange ==
    /\ s.lives \in 0..INITIAL_LIVES
    /\ s.lives = 0 => s.gameEnd

C2_Witness ==
    /\ last = "tick" /\ pre.lives = 1 /\ ~pre.gameEnd
    /\ s.lives = 0 /\ s.gameEnd

\* C3: a tick deducts no life or one life, also when a pipe collision and a
\* world-bound contact fall in the same tick; a processed tick with two or
\* more colliding non-passed pipes deducts exactly one.
C3_OneLifePerTick ==
    last = "tick" =>
        /\ pre.lives - s.lives \in {0, 1}
        /\ (processed(pre) /\ Cardinality(colliding(advanced(pre))) >= 2)
              => s.lives = pre.lives - 1

C3_Witness ==
    /\ last = "tick" /\ processed(pre)
    /\ Cardinality(colliding(advanced(pre))) >= 2
    /\ boundsContact(advanced(pre))
    /\ pre.tickCount >= pre.invulnUntil
    /\ s.lives = pre.lives - 1

\* C4: after a world-bound life loss at tick index T = lossTick, a processed
\* tick of index T' with T <= T' < T + 15 that finds the bird in world-bound
\* contact deducts no life for it (only a pipe collision of that tick can
\* cost one) and leaves invulnUntil unchanged; from index T + 15 on such a
\* contact, with no pipe collision in the tick, deducts a life again.
C4_Invulnerability ==
    [][(/\ last' = "tick" /\ processed(s) /\ lossTick # Null
        /\ lossTick <= s.tickCount
        /\ advanced(s).pipes # <<>> /\ boundsContact(advanced(s)))
       => IF s.tickCount < lossTick + INVULN_TICKS
          THEN /\ s'.lives = s.lives
                     - (IF colliding(advanced(s)) = {} THEN 0 ELSE 1)
               /\ s'.invulnUntil = s.invulnUntil
               /\ s.invulnUntil = lossTick + INVULN_TICKS
          ELSE colliding(advanced(s)) = {}
                  => /\ s'.lives = s.lives - 1
                     /\ s'.invulnUntil = s.tickCount + INVULN_TICKS]_vars

C4_Witness ==
    /\ last = "tick" /\ processed(pre)
    /\ lossTick = 0 /\ pre.tickCount = 1 /\ pre.invulnUntil = INVULN_TICKS
    /\ advanced(pre).pipes # <<>> /\ topContact(advanced(pre))
    /\ s.lives = pre.lives /\ s.lives = INITIAL_LIVES - 1
    /\ s.invulnUntil = pre.invulnUntil

\* The last event applied no restart.
sameRun == \A i \in 1..Len(log) : log[i] # "restart"

\* C5: within a run a pipe's passed flag never returns to false, a tick
\* raises the score by exactly the number of pipes whose flag it set, no
\* other event changes score or flags, and the score never exceeds the
\* number of pipes of the layout.
C5_ScoreOnce ==
    /\ s.score <= Len(initialPipes)
    /\ sameRun => s.score >= pre.score
    /\ (sameRun /\ last # "tick") => (s.score = pre.score /\ s.pipes = pre.pipes)
    /\ (last = "tick" /\ ~(processed(pre) /\ advanced(pre).pipes # <<>>))
          => s.score = pre.score
    /\ (last = "tick" /\ processed(pre) /\ advanced(pre).pipes # <<>>) =>
          /\ Len(s.pipes) = Len(advanced(pre).pipes)
          /\ \A i \in 1..Len(s.pipes) :
                advanced(pre).pipes[i].passed => s.pipes[i].passed
          /\ s.score = pre.score
                + Cardinality({i \in 1..Len(s.pipes) :
                      ~advanced(pre).pipes[i].passed /\ s.pipes[i].passed})

C5_Witness ==
    /\ last = "tick" /\ processed(pre)
    /\ pre.pipes # <<>> /\ pre.pipes[1].passed /\ pre.score = 1
    /\ s.pipes # <<>> /\ s.pipes[1].passed /\ s.score = 1

\* C6: a processed tick that finds no pipe after scrolling sets gameEnd and
\* leaves lives, score, rngSeed and invulnUntil as they were and birdVY as
\* moveBird left it, also with the bird in world-bound contact; a run of an
\* empty layout ends on its first processed tick.
C6_EmptyEnds ==
    (last = "tick" /\ processed(pre) /\ advanced(pre).pipes = <<>>) =>
        /\ s.gameEnd
        /\ s.pipes = <<>>
        /\ s.lives = pre.lives /\ s.score = pre.score
        /\ s.rngSeed = pre.rngSeed /\ s.invulnUntil = pre.invulnUntil
        /\ s.birdVY = moveBird(pre).birdVY /\ s.birdY = moveBird(pre).birdY
        /\ s.tickCount = pre.tickCount + 1

C6_Witness ==
    /\ last = "tick" /\ processed(pre)
    /\ pre.pipes # <<>> /\ s.pipes = <<>>
    /\ boundsContact(s) /\ pre.tickCount >= pre.invulnUntil
    /\ s.gameEnd /\ s.lives = pre.lives

\* C7: the flap reducer applied to a state with gameEnd false, paused or
\* not, sets birdVY to FLAP_FORCE (-5.5) and changes nothing else; applied
\* to a state with gameEnd true it returns the state unchanged.
C7_Flap ==
    /\ 2 * FLAP_FORCE = -(11 * Unit)
    /\ last = "flap" =>
          IF pre.gameEnd THEN s = pre
          ELSE s = [pre EXCEPT !.birdVY = FLAP_FORCE]

C7_Witness ==
    /\ last = "flap" /\ ~pre.gameEnd /\ pre.paused
    /\ pre.birdVY # FLAP_FORCE /\ s.birdVY = FLAP_FORCE
    /\ s.birdY = pre.birdY /\ s.paused

\* C8: restartGame(st, pipes) is, for every st, the state with the pipes
\* supplied (not passed, x as parsed), score 0, lives 3, tickCount 0,
\* gameEnd and paused false, birdY 200, birdVY 0, rngSeed 123456789,
\* invulnUntil 0 and no ghost.
C8_Restart ==
    last = "restart" =>
        /\ s = [birdY |-> 200 * Unit, birdVY |-> 0, pipes |-> initialPipes,
                lives |-> 3, score |-> 0, gameEnd |-> FALSE, paused |-> FALSE,
                rngSeed |-> 123456789, tickCount |-> 0, invulnUntil |-> 0,
                ghosts |-> <<>>]
        /\ \A i \in 1..Len(s.pipes) : ~s.pipes[i].passed

C8_Witness ==
    /\ last = "restart"
    /\ pre.gameEnd /\ pre.lives = 0 /\ pre.ghosts # <<>> /\ pre.tickCount > 0
    /\ pre.paused
    /\ s.pipes # <<>> /\ s.lives = INITIAL_LIVES /\ s.ghosts = <<>>

\* The reducers at positions i, i + 1 and i + 2 of the log are restart, flap
\* and clear, and only ghost reducers follow.
choreographyAt(i) ==
    /\ i + 2 <= Len(log)
    /\ log[i] = "restart" /\ log[i + 1] = "flap" /\ log[i + 2] = "clear"
    /\ \A j \in 1..Len(log) :
          /\ j > i + 2 => log[j] \in {"activate", "deactivate"}
          /\ log[j] = "activate" => j > i + 2

\* C9: a Space arriving in a state with gameEnd true makes the fold apply
\* restart, flap and clear in that order with nothing between, every ghost
\* activation after the clear, so that the state has the parsed layout,
\* lives 3, score 0, tickCount 0, birdVY FLAP_FORCE and no ghost but those
\* activated since; a Space arriving with gameEnd false applies no restart.
C9_SpaceRestarts ==
    /\ (last = "keySpace" /\ pre.gameEnd) =>
          /\ \E i \in 1..Len(log) : choreographyAt(i)
          /\ s.pipes = initialPipes /\ s.lives = INITIAL_LIVES
          /\ s.score = 0 /\ s.tickCount = 0 /\ s.birdVY = FLAP_FORCE
          /\ ~s.gameEnd
          /\ \A i \in 1..Len(s.ghosts) : s.ghosts[i].y = Null
    /\ (last = "keySpace" /\ ~pre.gameEnd) => sameRun

\* C10: no archived recording holds positions of two different runs.
C10_OneRunPerRecording ==
    \A i \in 1..Len(acc.runs) :
        \A j, k \in 1..Len(acc.runs[i].subj) :
            acc.runs[i].subj[j].run = acc.runs[i].subj[k].run

\* C11: the identifiers of the archive are strictly increasing in order of
\* completion and the first archived run has identifier 1.
C11_ArchiveIds ==
    /\ acc.runs # <<>> => acc.runs[1].id = 1
    /\ \A i, j \in 1..Len(acc.runs) : i < j => acc.runs[i].id < acc.runs[j].id

\* The recording archived under id, and the ghost reducers applied for id
\* since the last restart.
recording(id) ==
    acc.runs[CHOOSE i \in 1..Len(acc.runs) : acc.runs[i].id = id].subj
opsOf(id) == SelectSeq(trail, LAMBDA e : e.id = id)
ghostIds == {trail[i].id : i \in 1..Len(trail)}
ghostOf(id) == s.ghosts[CHOOSE i \in 1..Len(s.ghosts) : s.ghosts[i].id = id]

\* C12: the reducers applied for a replayed run's ghost id are one activate,
\* then frames carrying the recorded positions in recorded order, none
\* skipped or repeated, then at most one deactivate; a playback tick applies
\* at most one frame and none while the game is paused; the ghost of the
\* state is active with y unset after the activate, carries the last frame's
\* position after a frame, and is inactive after the deactivate.
C12_GhostPlayback ==
    /\ \A id \in ghostIds :
          /\ opsOf(id)[1].op = "activate"
          /\ \A k \in 2..Len(opsOf(id)) :
                /\ \/ opsOf(id)[k].op = "frame"
                   \/ (k = Len(opsOf(id)) /\ opsOf(id)[k].op = "deactivate")
                /\ opsOf(id)[k].op = "frame" =>
                      /\ k - 1 <= Len(recording(id))
                      /\ opsOf(id)[k].y = recording(id)[k - 1].y
          /\ hasGhost(s, id)
          /\ ghostOf(id).active
                <=> opsOf(id)[Len(opsOf(id))].op # "deactivate"
          /\ \A k \in 1..Len(opsOf(id)) :
                (opsOf(id)[k].op # "deactivate"
                 /\ \A m \in (k + 1)..Len(opsOf(id)) :
                       opsOf(id)[m].op = "deactivate")
                   => ghostOf(id).y = opsOf(id)[k].y
    /\ (last = "ghost" /\ log # <<>>) => ~pre.paused
    /\ last = "ghost" =>
          Cardinality({k \in 1..Len(log) : log[k] = "frame"}) <= 1

C12_Witness ==
    \E a, b \in ghostIds :
        /\ a # b
        /\ Len(recording(a)) >= 2
        /\ Len(opsOf(a)) = Len(recording(a)) + 2
        /\ opsOf(a)[Len(opsOf(a))].op = "deactivate"
        /\ Len(opsOf(b)) >= 2 /\ opsOf(b)[2].op = "frame"
        /\ opsOf(b)[Len(opsOf(b))].op = "frame"

\* The ghost of id is in the state and active.
activeGhost(id) ==
    \E i \in 1..Len(s.ghosts) : s.ghosts[i].id = id /\ s.ghosts[i].active

\* The frames applied for id since the last restart.
framesOf(id) ==
    Cardinality({k \in 1..Len(opsOf(id)) : opsOf(id)[k].op = "frame"})

\* Identifiers an archived run can carry within the key budget.
RunIds == 1..(MaxKeys + 1)

\* A playback tick that finds the run ended and the game unpaused applies the
\* deactivate and no frame; no frame is applied once the run has ended; the
\* frame that exhausts the recording comes with the deactivate.
endsPlayback ==
    /\ (last = "ghost" /\ pre.gameEnd /\ ~pre.paused) => log = <<"deactivate">>
    /\ (last = "ghost" /\ pre.gameEnd) =>
          \A k \in 1..Len(log) : log[k] # "frame"
    /\ \A id \in ghostIds :
          framesOf(id) = Len(recording(id))
             => opsOf(id)[Len(opsOf(id))].op = "deactivate"

\* C13: a playback ends with the deactivate when its recording is exhausted
\* or at its first unpaused tick after the run has ended, with no frame after
\* the end of the run; and, unless the game stays paused for ever, every
\* active ghost is eventually inactive or cleared.
C13_GhostEnds ==
    /\ []endsPlayback
    /\ \/ <>[](s.paused)
       \/ \A id \in RunIds : [](activeGhost(id) => <>(~activeGhost(id)))

C13_Witness ==
    /\ last = "ghost" /\ pre.gameEnd /\ ~pre.paused
    /\ log = <<"deactivate">>
    /\ framesOf(trail[Len(trail)].id) >= 1
    /\ framesOf(trail[Len(trail)].id) < Len(recording(trail[Len(trail)].id))
    /\ ~activeGhost(trail[Len(trail)].id)

\* The timers of the playbacks in progress.
ghostTimersNow == SelectSeq(timers, LAMBDA tm : tm.kind = "ghost")

\* A playback of the previous choreography was in progress in st: one of its
\* ghosts was activated and not yet deactivated.
inProgress(st) == \E i \in 1..Len(st.ghosts) : st.ghosts[i].active

\* C14: a restart supersedes the choreography before it: every playback timer
\* left running, and every ghost reducer applied since the restart, belongs to
\* the choreography of the latest restart, and no two playbacks drive the same
\* ghost id.
C14_Superseded ==
    /\ \A i \in 1..Len(ghostTimersNow) : ghostTimersNow[i].gen = run
    /\ \A k \in 1..Len(trail) : trail[k].gen = run
    /\ \A i, j \in 1..Len(ghostTimersNow) :
          i # j => ghostTimersNow[i].id # ghostTimersNow[j].id
    /\ Len(ghostTimersNow) = Len(plays)
    /\ {ghostTimersNow[i].id : i \in 1..Len(ghostTimersNow)}
          = {plays[i].id : i \in 1..Len(plays)}

C14_Witness ==
    /\ last = "keySpace" /\ Len(log) > 1 /\ log[2] = "restart"
    /\ inProgress(pre)
    /\ \E i \in 1..Len(pre.ghosts) :
          pre.ghosts[i].active /\ activeGhost(pre.ghosts[i].id)

\* The fields of st a run is made of.
runFields(st) ==
    [birdY |-> st.birdY, birdVY |-> st.birdVY, pipes |-> st.pipes,
     lives |-> st.lives, score |-> st.score, gameEnd |-> st.gameEnd,
     rngSeed |-> st.rngSeed, tickCount |-> st.tickCount,
     invulnUntil |-> st.invulnUntil]

won(st) == st.pipes = <<>> /\ st.lives > 0
lost(st) == st.lives = 0 /\ st.pipes # <<>>

\* C16: an ended state is a win (no pipe left, lives left) or a loss (no life
\* left, pipes left) and never both; a state that has not ended has lives
\* left; and the tick that ends a run ends it as a win exactly when it
\* culled the last pipe.
C16_WinOrLoss ==
    /\ s.gameEnd => (won(s) \/ lost(s)) /\ ~(won(s) /\ lost(s))
    /\ ~s.gameEnd => s.lives > 0
    /\ (last = "tick" /\ ~pre.gameEnd /\ s.gameEnd) =>
          (won(s) <=> advanced(pre).pipes = <<>>)

C16_Witness ==
    /\ last = "tick" /\ ~pre.gameEnd /\ s.gameEnd
    /\ pre.pipes # <<>> /\ pre.lives = 1
    /\ bottomContact(s) /\ s.tickCount >= s.invulnUntil
    /\ won(s)

\* C17: the pause toggle flips paused and nothing else, ended or not, and a
\* second toggle gives the state back; a tick of a paused state changes no
\* field; a flap of a paused running state sets birdVY to FLAP_FORCE and
\* nothing else; the velocity stays FLAP_FORCE until a tick is processed, and
\* that tick moves the bird by FLAP_FORCE + GRAVITY (down to the top of the
\* world at most).
C17_PauseLatch ==
    /\ last = "keyP" =>
          /\ s = [pre EXCEPT !.paused = ~pre.paused]
          /\ togglePauseR(s) = pre
    /\ (last = "tick" /\ pre.paused) => s = pre
    /\ (last = "keySpace" /\ pre.paused /\ ~pre.gameEnd) =>
          s = [pre EXCEPT !.birdVY = FLAP_FORCE]
    /\ latch = "held" => s.birdVY = FLAP_FORCE /\ ~s.gameEnd
    /\ (last = "tick" /\ processed(pre) /\ latch = "integrated") =>
          /\ pre.birdVY = FLAP_FORCE
          /\ s.birdY = IF pre.birdY + FLAP_FORCE + GRAVITY < 0 THEN 0
                       ELSE pre.birdY + FLAP_FORCE + GRAVITY

C17_Witness ==
    /\ last = "tick" /\ processed(pre) /\ latch = "integrated"
    /\ pre.tickCount > 0
    /\ s.birdY = pre.birdY + FLAP_FORCE + GRAVITY
    /\ s.tickCount = pre.tickCount + 1

\* C18: a tick of a running, unpaused state raises tickCount by exactly one,
\* also when it ends the run; a tick of any other state, a flap, a pause
\* toggle and the ghost reducers leave tickCount alone; a restart sets it
\* to zero.
C18_TickCount ==
    /\ last = "tick" =>
          s.tickCount = pre.tickCount + (IF processed(pre) THEN 1 ELSE 0)
    /\ last \in {"flap", "pause", "clear", "activate", "frame", "deactivate"}
          => s.tickCount = pre.tickCount
    /\ last = "restart" => s.tickCount = 0

C18_Witness ==
    /\ last = "tick" /\ processed(pre)
    /\ s.gameEnd /\ lost(s)
    /\ pre.tickCount > 0
    /\ s.tickCount = pre.tickCount + 1

\* C19 as stated: moveBird takes every state with birdY = 0 and birdVY < 0
\* to birdY = 0, birdVY = 0, and every state with birdY = CANVAS_HEIGHT and
\* birdVY > 0 to birdY = CANVAS_HEIGHT - BIRB_HEIGHT / 2, birdVY = 0.
C19_Clamp ==
    last = "moveBird" =>
        /\ (pre.birdY = 0 /\ pre.birdVY < 0) =>
              s.birdY = 0 /\ s.birdVY = 0
        /\ (pre.birdY = CANVAS_HEIGHT /\ pre.birdVY > 0) =>
              /\ s.birdY = CANVAS_HEIGHT - BIRB_HEIGHT \div 2
              /\ s.birdVY = 0

\* C19, amended: moveBird returns an ended state as it is; it takes every
\* state that has not ended with birdY = 0 and birdVY <= -GRAVITY to
\* birdY = 0, birdVY = 0, and one with birdY = 0 and -GRAVITY < birdVY < 0
\* to birdY = birdVY = the old birdVY + GRAVITY; it takes every state that
\* has not ended with birdY = CANVAS_HEIGHT and birdVY > 0 to
\* birdY = CANVAS_HEIGHT - BIRB_HEIGHT / 2, birdVY = 0.
C19_ClampRunning ==
    last = "moveBird" =>
        /\ pre.gameEnd => s = pre
        /\ (~pre.gameEnd /\ pre.birdY = 0 /\ pre.birdVY <= -GRAVITY) =>
              s.birdY = 0 /\ s.birdVY = 0
        /\ (~pre.gameEnd /\ pre.birdY = 0 /\ pre.birdVY < 0
               /\ pre.birdVY > -GRAVITY) =>
              /\ s.birdY = pre.birdVY + GRAVITY
              /\ s.birdVY = pre.birdVY + GRAVITY
        /\ (~pre.gameEnd /\ pre.birdY = CANVAS_HEIGHT /\ pre.birdVY > 0) =>
              /\ s.birdY = CANVAS_HEIGHT - BIRB_HEIGHT \div 2
              /\ s.birdVY = 0

C19_Witness ==
    /\ last = "moveBird" /\ ~pre.gameEnd
    /\ pre.birdY = CANVAS_HEIGHT /\ pre.birdVY = 2 * MAX_VELOCITY
    /\ s.birdY = 385 * Unit /\ s.birdVY = 0

\* The rows of the schedule the parser keeps.
rows == SelectSeq(csv, rowOk)

\* Ticks it takes a pipe to scroll by its own width.
widthTicks == PIPE_WIDTH \div PIPE_SPEED

\* Row i is due at tick n: n ticks of TICK_RATE_MS make its time.
dueAt(i, n) == n * 100 = rows[i].time * (1000 \div TICK_RATE_MS)

\* C20 as stated: after as many uninterrupted ticks as make the appearance
\* time of a row, the right edge of its pipe is at the right edge of the
\* viewport.
C20_RightEdgeOnTime ==
    (~s.gameEnd /\ Len(s.pipes) = Len(rows)) =>
        \A i \in 1..Len(rows) :
            dueAt(i, s.tickCount) => s.pipes[i].x + PIPE_WIDTH = CANVAS_WIDTH

\* C20, amended: the parser gives the pipe of a row of time t the
\* x = CANVAS_WIDTH + t * (1000 / TICK_RATE_MS) * PIPE_SPEED; every tick of
\* a running, unpaused game moves it left by PIPE_SPEED; so after t * 50
\* uninterrupted ticks its left edge x is at the right edge of the viewport,
\* and its right edge is there PIPE_WIDTH / PIPE_SPEED ticks later.
C20_LeftEdgeOnTime ==
    /\ \A i \in 1..Len(rows) :
          100 * (initialPipes[i].x - CANVAS_WIDTH)
             = rows[i].time * (1000 \div TICK_RATE_MS) * PIPE_SPEED
    /\ (~s.gameEnd /\ Len(s.pipes) = Len(rows)) =>
          \A i \in 1..Len(rows) :
              /\ s.pipes[i].x = initialPipes[i].x - s.tickCount * PIPE_SPEED
              /\ dueAt(i, s.tickCount) => s.pipes[i].x = CANVAS_WIDTH
              /\ (s.tickCount >= widthTicks
                    /\ dueAt(i, s.tickCount - widthTicks)) =>
                        s.pipes[i].x + PIPE_WIDTH = CANVAS_WIDTH

C20_Witness ==
    /\ last = "tick" /\ ~s.gameEnd /\ Len(rows) = 2
    /\ rows[2].time > 0
    /\ dueAt(2, s.tickCount - widthTicks)
    /\ s.pipes[2].x + PIPE_WIDTH = CANVAS_WIDTH
    /\ s.pipes[1].x + PIPE_WIDTH < CANVAS_WIDTH

\* The one colliding pipe of st, when there is exactly one.
thePipe(st) == st.pipes[CHOOSE i \in colliding(st) : TRUE]

\* C21: a processed tick in which a non-passed pipe is hit deducts exactly
\* one life; when one pipe only is hit and the bird touches neither bound of
\* the world, birdVY after the tick is in [4, 8] if the top of the bird is
\* above the top of the gap and in [-8, -4] otherwise, whatever the seed.
C21_PipeBounce ==
    (last = "tick" /\ processed(pre) /\ colliding(advanced(pre)) # {}) =>
        /\ s.lives = pre.lives - 1
        /\ (Cardinality(colliding(advanced(pre))) = 1
              /\ ~boundsContact(advanced(pre))) =>
                IF hitTopHalf(advanced(pre), thePipe(advanced(pre)))
                THEN 4 * Unit <= s.birdVY /\ s.birdVY <= 8 * Unit
                ELSE -(8 * Unit) <= s.birdVY /\ s.birdVY <= -(4 * Unit)

C21_Witness ==
    /\ last = "tick" /\ processed(pre)
    /\ pre.rngSeed = 2088216195
    /\ Cardinality(colliding(advanced(pre))) = 1
    /\ ~boundsContact(advanced(pre))
    /\ ~hitTopHalf(advanced(pre), thePipe(advanced(pre)))
    /\ s.lives = pre.lives - 1
    /\ s.birdVY = -(8 * Unit) /\ s.rngSeed = 0

\* The last event put a restart reducer through the fold.
restarted == \E i \in 1..Len(log) : log[i] = "restart"

\* C22: an event that finds the run ended and applies no restart leaves
\* gameEnd set and birdY, birdVY, pipes, lives, score, rngSeed, tickCount and
\* invulnUntil as they were, whether it is a tick, a flap, a pause toggle or
\* a ghost reducer; and a restart is applied only by a Space key that finds
\* the run ended.
C22_EndedFrozen ==
    /\ (pre.gameEnd /\ ~restarted) =>
          s.gameEnd /\ runFields(s) = runFields(pre)
    /\ restarted => last = "keySpace" /\ pre.gameEnd /\ ~s.gameEnd

C22_Witness ==
    /\ last = "ghost" /\ log = <<"deactivate">>
    /\ pre.gameEnd /\ lost(pre) /\ pre.birdVY # 0
    /\ s.gameEnd /\ runFields(s) = runFields(pre)
    /\ s.ghosts # pre.ghosts

\* The seed after k draws.
RECURSIVE draws(_, _)
draws(seed, k) == IF k = 0 THEN seed ELSE hash(draws(seed, k - 1))

\* The reduce of checkPipes(adv) ended the run: a pipe took the last life.
pipesEnded(adv) == colliding(adv) # {} /\ adv.lives = 1

\* C23 as stated: a processed tick advances the seed once if a non-passed
\* pipe collides, once more if the bird touches a bound of the world and no
\* pipe ended the run, and not otherwise; flap, pause toggle and ghost
\* reducers leave the seed alone.
C23_SeedDraws ==
    /\ (last = "tick" /\ processed(pre)) =>
          s.rngSeed =
             draws(pre.rngSeed,
                   (IF colliding(advanced(pre)) # {} THEN 1 ELSE 0)
                   + (IF boundsContact(advanced(pre))
                         /\ ~pipesEnded(advanced(pre)) THEN 1 ELSE 0))
    /\ last \in {"flap", "pause", "clear", "activate", "frame", "deactivate"}
          => s.rngSeed = pre.rngSeed

\* C23, amended: as stated, but the draw for the bound of the world is made
\* only when pipes are left after the scroll: the tick that culls the last
\* pipe ends the run before any draw. A tick that is not processed leaves
\* the seed alone, and so do flap, pause toggle and ghost reducers.
C23_SeedDrawsWithPipes ==
    /\ (last = "tick" /\ processed(pre)) =>
          s.rngSeed =
             draws(pre.rngSeed,
                   (IF colliding(advanced(pre)) # {} THEN 1 ELSE 0)
                   + (IF boundsContact(advanced(pre))
                         /\ advanced(pre).pipes # <<>>
                         /\ ~pipesEnded(advanced(pre)) THEN 1 ELSE 0))
    /\ (last = "tick" /\ ~processed(pre)) => s.rngSeed = pre.rngSeed
    /\ last \in {"flap", "pause", "clear", "activate", "frame", "deactivate"}
          => s.rngSeed = pre.rngSeed

C23_Witness ==
    /\ last = "tick" /\ processed(pre)
    /\ Cardinality(colliding(advanced(pre))) = 2
    /\ boundsContact(advanced(pre)) /\ ~pipesEnded(advanced(pre))
    /\ s.rngSeed = hash(hash(pre.rngSeed))
    /\ s.rngSeed # hash(pre.rngSeed) /\ s.rngSeed # pre.rngSeed

\* birdVY of st is a bounce off the bound of the world adv touches.
boundsBounce(adv, st) ==
    IF topContact(adv)
    THEN 4 * Unit <= st.birdVY /\ st.birdVY <= 8 * Unit
    ELSE -(8 * Unit) <= st.birdVY /\ st.birdVY <= -(4 * Unit)

\* The seed after the draws of the pipes of adv and one more draw.
seedAfterBounds(seed, adv) ==
    hash(IF colliding(adv) # {} THEN hash(seed) ELSE seed)

\* C24 as stated: a processed tick that finds the bird touching a bound of
\* the world, no pipe having ended the run, leaves birdVY in [4, 8] (top) or
\* in [-8, -4] (bottom) and advances the seed, a life being deducted or not.
C24_BoundsBounce ==
    (/\ last = "tick" /\ processed(pre)
     /\ boundsContact(advanced(pre)) /\ ~pipesEnded(advanced(pre))) =>
        /\ boundsBounce(advanced(pre), s)
        /\ s.rngSeed = seedAfterBounds(pre.rngSeed, advanced(pre))

\* C24, amended: the same for a tick whose scroll leaves at least one pipe;
\* a tick that culls the last pipe ends the run with no bounce and no draw,
\* birdVY being what moveBird left.
C24_BoundsBounceWithPipes ==
    (/\ last = "tick" /\ processed(pre)
     /\ boundsContact(advanced(pre)) /\ ~pipesEnded(advanced(pre))) =>
        IF advanced(pre).pipes # <<>>
        THEN /\ boundsBounce(advanced(pre), s)
             /\ s.rngSeed = seedAfterBounds(pre.rngSeed, advanced(pre))
        ELSE /\ s.gameEnd
             /\ s.birdVY = advanced(pre).birdVY
             /\ s.rngSeed = pre.rngSeed

C24_Witness ==
    /\ last = "tick" /\ processed(pre)
    /\ pre.tickCount < pre.invulnUntil
    /\ bottomContact(advanced(pre)) /\ advanced(pre).pipes # <<>>
    /\ colliding(advanced(pre)) = {}
    /\ s.lives = pre.lives /\ s.invulnUntil = pre.invulnUntil
    /\ boundsBounce(advanced(pre), s)
    /\ s.rngSeed = hash(pre.rngSeed) /\ s.rngSeed # pre.rngSeed

\* The bounce the world step draws from seed for the bound adv touches.
boundsDraw(seed, adv) ==
    IF topContact(adv) THEN randBetween(seed, 4 * Unit, 8 * Unit)
    ELSE randBetween(seed, -(8 * Unit), -(4 * Unit))

\* C25: in a processed tick where a pipe collision deducts a life and the
\* bird touches a bound of the world: if that life was the last, the run
\* ends with the pipe bounce, one draw and invulnUntil unchanged; otherwise
\* one life only is deducted, invulnUntil is unchanged, and birdVY is the
\* bounce off the bound, drawn from the seed the pipe bounce left.
C25_PipeAndBounds ==
    (/\ last = "tick" /\ processed(pre)
     /\ colliding(advanced(pre)) # {} /\ boundsContact(advanced(pre))) =>
        /\ s.lives = pre.lives - 1
        /\ s.invulnUntil = pre.invulnUntil
        /\ IF pre.lives = 1
           THEN /\ s.gameEnd
                /\ s.birdVY = afterPipes(advanced(pre)).vy
                /\ s.rngSeed = hash(pre.rngSeed)
           ELSE /\ ~s.gameEnd
                /\ s.birdVY
                     = boundsDraw(hash(pre.rngSeed), advanced(pre)).v
                /\ s.rngSeed = hash(hash(pre.rngSeed))

C25_Witness ==
    /\ last = "tick" /\ processed(pre)
    /\ colliding(advanced(pre)) # {} /\ topContact(advanced(pre))
    /\ pre.tickCount >= pre.invulnUntil
    /\ pre.lives = INITIAL_LIVES /\ s.lives = INITIAL_LIVES - 1
    /\ s.invulnUntil = pre.invulnUntil
    /\ s.birdVY # afterPipes(advanced(pre)).vy

\* A processed tick of st finds the bird over a non-passed pipe, outside its
\* gap.
hitsPipe(st) == processed(st) /\ colliding(advanced(st)) # {}

staying(st) ==
    SelectSeq(st.pipes, LAMBDA p : p.x - PIPE_SPEED + PIPE_WIDTH > 0)

\* C27: a processed tick leaves, in their order, exactly the pipes whose
\* right edge is right of 0 after the scroll, each PIPE_SPEED further left
\* with its gapY and gapHeight; any other tick and every reducer other than
\* the restart leave the positions and gaps of the pipes alone, so the
\* number of pipes never grows.
C27_Scroll ==
    /\ (last = "tick" /\ processed(pre)) =>
          /\ Len(s.pipes) = Len(staying(pre))
          /\ \A i \in 1..Len(s.pipes) :
                /\ s.pipes[i].x = staying(pre)[i].x - PIPE_SPEED
                /\ s.pipes[i].gapY = staying(pre)[i].gapY
                /\ s.pipes[i].gapHeight = staying(pre)[i].gapHeight
    /\ (last = "tick" /\ ~processed(pre)) => s.pipes = pre.pipes
    /\ last \in {"flap", "pause", "clear", "activate", "frame", "deactivate"}
          => s.pipes = pre.pipes
    /\ last # "init" => Len(s.pipes) <= Len(pre.pipes)

C27_Witness ==
    /\ last = "tick" /\ processed(pre)
    /\ Len(pre.pipes) = 3 /\ Len(s.pipes) = 2
    /\ s.pipes[1].x = pre.pipes[1].x - PIPE_SPEED /\ s.pipes[1].x < 0
    /\ pre.pipes[2].x + PIPE_WIDTH > 0
    /\ s.pipes[2].x = pre.pipes[3].x - PIPE_SPEED

\* C28: birdY is within [0, CANVAS_HEIGHT - BIRB_HEIGHT / 2] and birdVY
\* within [-8, MAX_VELOCITY] in every state, and the velocity moveBird
\* leaves in a tick is at most MAX_VELOCITY.
C28_BirdRange ==
    /\ 0 <= s.birdY /\ s.birdY <= CANVAS_HEIGHT - BIRB_HEIGHT \div 2
    /\ -(8 * Unit) <= s.birdVY /\ s.birdVY <= MAX_VELOCITY
    /\ last = "tick" => moveBird(pre).birdVY <= MAX_VELOCITY

C28_Witness ==
    /\ last = "tick" /\ processed(pre)
    /\ pre.birdVY = MAX_VELOCITY
    /\ s.birdVY = MAX_VELOCITY
    /\ s.birdY = pre.birdY + MAX_VELOCITY

\* st with the ghosts of gs.
withGhosts(st, gs) == [st EXCEPT !.ghosts = gs]

\* C29: a playback tick changes the ghosts field only; a tick, a pause key
\* and a Space key that does not restart leave ghosts alone; the ghost
\* reducers of a restart leave the restarted state with its flap in every
\* other field; and the state without its ghosts is, at every moment, the
\* state of the same run played with no ghost at all (shadow).
C29_GhostsApart ==
    /\ last = "ghost" => withGhosts(s, pre.ghosts) = pre
    /\ last \in {"tick", "rec", "keyP"} => s.ghosts = pre.ghosts
    /\ (last = "keySpace" /\ ~restarted) => s.ghosts = pre.ghosts
    /\ (last = "keySpace" /\ restarted) =>
          withGhosts(s, <<>>) = flapR(restartGame(pre, initialPipes))
    /\ withGhosts(s, <<>>) = withGhosts(shadow, <<>>)

C29_Witness ==
    /\ last = "ghost" /\ log = <<"frame">>
    /\ processed(pre) /\ pre.tickCount > 0
    /\ Len(s.ghosts) >= 2
    /\ s.ghosts # pre.ghosts
    /\ withGhosts(s, <<>>) = withGhosts(shadow, <<>>)
    /\ shadow.ghosts = <<>>

\* The largest x of the pipes ps (ps is not empty).
maxPipeX(ps) ==
    CHOOSE x \in {ps[i].x : i \in 1..Len(ps)} :
        \A i \in 1..Len(ps) : ps[i].x <= x

\* ceil((maxPipeX + PIPE_WIDTH) / PIPE_SPEED).
scrollTicks(ps) == -((-(maxPipeX(ps) + PIPE_WIDTH)) \div PIPE_SPEED)

\* Processed ticks until the scroll has culled every pipe of ps: at least
\* the one tick that finds the pipe set empty.
ticksToClear(ps) ==
    IF ps = <<>> \/ scrollTicks(ps) < 1 THEN 1 ELSE scrollTicks(ps)

\* Unless the game stays paused for ever, a run that has not ended ends.
runEnds == (<>[](s.paused)) \/ [](~s.gameEnd => <>(s.gameEnd))

\* A run of a layout with pipes has ended once it has processed
\* ceil((maxPipeX + PIPE_WIDTH) / PIPE_SPEED) ticks.
withinScrollTicks ==
    initialPipes # <<>> =>
        /\ s.tickCount <= scrollTicks(initialPipes)
        /\ (s.tickCount = scrollTicks(initialPipes) => s.gameEnd)

\* A run has ended once it has processed ticksToClear ticks of its layout,
\* and a run that has not ended needs no more ticks than its pipes need.
withinTicksToClear ==
    /\ s.tickCount <= ticksToClear(initialPipes)
    /\ (s.tickCount = ticksToClear(initialPipes) => s.gameEnd)
    /\ (~s.gameEnd /\ s.tickCount > 0) =>
          s.tickCount + ticksToClear(s.pipes) <= ticksToClear(initialPipes)

\* C30 as stated: every run ends, the timers firing and the game not paused
\* for ever, and a run of a layout with pipes has ended after at most
\* ceil((maxPipeX + PIPE_WIDTH) / PIPE_SPEED) processed ticks.
C30_EndsInScrollTicks ==
    /\ runEnds
    /\ []withinScrollTicks

\* C30, amended: every run ends, the timers firing and the game not paused
\* for ever, after at most max(1, ceil((maxPipeX + PIPE_WIDTH) / PIPE_SPEED))
\* processed ticks, one tick for an empty layout; and from a state that has
\* not ended it takes at most as many ticks as its own pipes need.
C30_EndsInTicksToClear ==
    /\ runEnds
    /\ []withinTicksToClear

C30_Witness ==
    /\ last = "tick" /\ ~pre.gameEnd /\ s.gameEnd
    /\ keys > 0 /\ run > 0
    /\ initialPipes # <<>>
    /\ scrollTicks(initialPipes) > 1
    /\ s.tickCount = scrollTicks(initialPipes)
    /\ won(s)

====
